---- MODULE Spec2Model ----
(***************************************************************************)
(* Model of the selector execution engine of StockTradebyZ                 *)
(* (select_stock_new.py): load_data, the trade-date resolution, load_config,*)
(* instantiate_selector, the run loop of main() and                        *)
(* save_selection_results_to_excel, with the metadata cache.               *)
(*                                                                         *)
(* Dates are integers 1..MaxDate, 0 stands for a null date (NaT).  A table *)
(* is the sequence of its date cells.  Strings that the code inspects      *)
(* character by character (aliases, class names, file names) are sequences *)
(* of one-character strings.                                               *)
(***************************************************************************)
EXTENDS Integers, Sequences, FiniteSets, TLC

\* ---------- bounds ----------
MaxRows == 2
MaxDate == 2
MaxSpecs == 2
MaxClock == 1
MaxCalls == 10

\* ---------- generic helpers ----------
Range(s) == {s[i] : i \in DOMAIN s}

SeqsUpTo(S, n) == UNION {[1..k -> S] : k \in 0..n}

MaxOf(S) == CHOOSE m \in S : \A x \in S : x <= m

MinOf(S) == CHOOSE m \in S : \A x \in S : m <= x

NaT == 0
NoDate == 0 - 1

Codes == {"A", "B", "C"}
CodeOrder == <<"A", "B", "C">>

\* ---------- the data directory ----------
Dates == 0..MaxDate
Tables == SeqsUpTo(Dates, MaxRows)

MissingFile == [kind |-> "missing", rows |-> <<>>]
BadFile == [kind |-> "bad", rows |-> <<>>]
OkFile(t) == [kind |-> "ok", rows |-> t]
FileStates == {MissingFile, BadFile} \cup {OkFile(t) : t \in Tables}
\* the same with at most one row
ShortFileStates == {f \in FileStates : Len(f.rows) <= 1}

\* data_dir.glob("*.csv") stems, in directory order
GlobStems(fl) == SelectSeq(CodeOrder, LAMBDA c : fl[c].kind # "missing")

\* args.tickers.split(",") with empty tokens dropped after strip()
SplitTickers(toks) == SelectSeq(toks, LAMBDA c : c # "")

\* DataFrame.sort_values("date"): ascending, null dates last
RECURSIVE InsertSorted(_, _)
InsertSorted(d, s) ==
    IF s = <<>> THEN <<d>>
    ELSE IF d <= Head(s) THEN <<d>> \o s
    ELSE <<Head(s)>> \o InsertSorted(d, Tail(s))

RECURSIVE SortAsc(_)
SortAsc(s) == IF s = <<>> THEN <<>> ELSE InsertSorted(Head(s), SortAsc(Tail(s)))

sort_values(rows) ==
    SortAsc(SelectSeq(rows, LAMBDA d : d # NaT)) \o SelectSeq(rows, LAMBDA d : d = NaT)

\* df["date"].dropna()
dropna(rows) == SelectSeq(rows, LAMBDA d : d # NaT)

\* load_data: the codes whose file exists, each read and sorted; read_csv
\* raises on a file it cannot parse (zero bytes, no date column)
LoadRaises(fl, codes) ==
    \E i \in DOMAIN codes : fl[codes[i]].kind = "bad"

load_data(fl, codes) ==
    [c \in {codes[i] : i \in {j \in DOMAIN codes : fl[codes[j]].kind # "missing"}}
        |-> sort_values(fl[c].rows)]

\* the generator of main()'s max(): one per-table maximum for every table
\* that is not empty and has a non-null date
DateCandidatesNoFilter(dt) ==
    {IF dropna(dt[c]) = <<>> THEN NaT ELSE MaxOf(Range(dropna(dt[c]))) : c \in DOMAIN dt}

DateCandidates(dt) ==
    {MaxOf(Range(dropna(dt[c]))) : c \in {k \in DOMAIN dt : dt[k] # <<>> /\ dropna(dt[k]) # <<>>}}

ResolveRaises(dt) == DateCandidates(dt) = {}

LatestDateMin(dt) == MinOf(DateCandidates(dt))

LatestDate(dt) == MaxOf(DateCandidates(dt))

\* ---------- configuration ----------
Chars == {"a", "b", "S", "e", "l", "N", "o", " ", "-", "_", "/"}
AlnumChars == {"a", "b", "S", "e", "l", "N", "o"}

ClsSel == <<"S", "e", "l">>
ClsNope == <<"N", "o">>
NoClass == <<>>

\* a strategy spec as a JSON object: class (<<>> when the key is absent),
\* alias (has_alias tells whether the key is there), activate ("absent",
\* "true", "false" or "zero" for the number 0), params ("absent", "ok", or
\* "bad" for a keyword the constructor rejects)
MkSpec(cls, hasAlias, alias, act, params) ==
    [class |-> cls, has_alias |-> hasAlias, alias |-> alias,
     activate |-> act, params |-> params]

SpecG1 == MkSpec(ClsSel, FALSE, <<>>, "absent", "absent")
SpecG2 == MkSpec(ClsSel, TRUE, <<"a", " ", "b">>, "true", "ok")
SpecG3 == MkSpec(ClsSel, TRUE, <<"a", "_", "b">>, "absent", "ok")
SpecG4 == MkSpec(ClsSel, TRUE, <<"a", "b">>, "zero", "absent")
SpecOff == MkSpec(ClsSel, FALSE, <<>>, "false", "absent")
SpecNoClass == MkSpec(NoClass, TRUE, <<"a", "b">>, "absent", "absent")
SpecNope == MkSpec(ClsNope, FALSE, <<>>, "true", "absent")
SpecBadCtor == MkSpec(ClsSel, FALSE, <<>>, "absent", "bad")

SpecSet == {SpecG1, SpecG2, SpecG3, SpecG4, SpecOff, SpecNoClass, SpecNope, SpecBadCtor}
SpecLists == SeqsUpTo(SpecSet, MaxSpecs)

\* the parsed JSON document: a list, or an object that may carry a
\* "selectors" key; a bare spec is an object without that key
\* the spec-level fields of a document that is not itself a spec: none
EmptyObj == MkSpec(NoClass, FALSE, <<>>, "absent", "absent")

JArray(L) == [tag |-> "list", items |-> L, has_selectors |-> FALSE,
              selectors |-> <<>>, obj |-> EmptyObj]
JWrapped(L) == [tag |-> "dict", items |-> <<>>, has_selectors |-> TRUE,
                selectors |-> L, obj |-> EmptyObj]
JBare(s) == [tag |-> "dict", items |-> <<>>, has_selectors |-> FALSE,
             selectors |-> <<>>, obj |-> s]

JsonDocs == {JArray(L) : L \in SpecLists} \cup {JWrapped(L) : L \in SpecLists}
            \cup {JBare(s) : s \in SpecSet}

CfgMissing == [kind |-> "missing", raw |-> JArray(<<>>)]
CfgUnparsable == [kind |-> "unparsable", raw |-> JArray(<<>>)]
CfgOk(j) == [kind |-> "ok", raw |-> j]
ConfigFiles == {CfgMissing, CfgUnparsable} \cup {CfgOk(j) : j \in JsonDocs}

\* load_config, lines 62-68: the three shapes
NormalizeNoWrapped(raw) ==
    IF raw.tag = "list" THEN raw.items ELSE <<raw.obj>>

Normalize(raw) ==
    IF raw.tag = "list" THEN raw.items
    ELSE IF raw.tag = "dict" /\ raw.has_selectors THEN raw.selectors
    ELSE <<raw.obj>>

\* ---------- instantiate_selector ----------
Catalog == {ClsSel}

\* the exception instantiate_selector raises on cfg, "" when it returns
ConstructError(cfg) ==
    IF cfg.class = NoClass THEN "ValueError"
    ELSE IF cfg.class \notin Catalog THEN "ImportError"
    ELSE IF cfg.params = "bad" THEN "TypeError"
    ELSE ""

\* cfg.get("alias", cls_name)
AliasOf(cfg) == IF cfg.has_alias THEN cfg.alias ELSE cfg.class

\* main(), line 224: cfg.get("activate", True) is False
InactiveDefaultOff(cfg) == cfg.activate \in {"false", "absent"}

Inactive(cfg) == cfg.activate = "false"

\* ---------- save_selection_results_to_excel ----------
\* str.rstrip(): trailing blanks removed
RECURSIVE rstrip(_)
rstrip(s) ==
    IF s = <<>> THEN <<>>
    ELSE IF s[Len(s)] = " " THEN rstrip(SubSeq(s, 1, Len(s) - 1))
    ELSE s

\* lines 122-123: keep alphanumerics, blanks, hyphens and underscores, strip
\* trailing blanks, turn blanks into underscores
SafeAliasAlnumOnly(alias) ==
    LET kept == rstrip(SelectSeq(alias, LAMBDA c : c \in AlnumChars \cup {" "}))
    IN  [i \in DOMAIN kept |-> IF kept[i] = " " THEN "_" ELSE kept[i]]

SafeAlias(alias) ==
    LET kept == rstrip(SelectSeq(alias, LAMBDA c : c \in AlnumChars \cup {" ", "-", "_"}))
    IN  [i \in DOMAIN kept |-> IF kept[i] = " " THEN "_" ELSE kept[i]]

\* datetime.now().strftime('%Y%m%d%H%M%S') for the t-th second of the run,
\* the run starting at 2024-01-01 00:00:00
Digit(n) == <<"0", "1", "2", "3", "4", "5", "6", "7", "8", "9">>[n + 1]

DateStr(t) ==
    <<"2", "0", "2", "4", "0", "1", "0", "1", "0", "0", "0", "0">>
        \o <<Digit((t \div 10) % 10), Digit(t % 10)>>

\* line 125
ExcelFilename(alias, t) == SafeAlias(alias) \o <<"_">> \o DateStr(t) \o <<".xlsx">>

\* the provider's answer when it answers: the codes it has metadata for
ProviderTables == {{}, {"A"}}

ProviderName(c) == IF c = "A" THEN "nameA" ELSE "nameOther"
ProviderArea(c) == IF c = "A" THEN "areaA" ELSE "areaOther"
ProviderIndustry(c) == IF c = "A" THEN "indA" ELSE "indOther"

\* lines 144-158: one record per pick, empty strings when the cache is
\* empty or has no row for the code
ResultRowsFirstRow(picks, known) ==
    [i \in DOMAIN picks |->
        IF known # {}
        THEN LET k == CHOOSE k \in known : TRUE
             IN  [ts_code |-> picks[i], name |-> ProviderName(k),
                  area |-> ProviderArea(k), industry |-> ProviderIndustry(k)]
        ELSE [ts_code |-> picks[i], name |-> "", area |-> "", industry |-> ""]]

ResultRows(picks, known) ==
    [i \in DOMAIN picks |->
        IF known # {} /\ picks[i] \in known
        THEN [ts_code |-> picks[i], name |-> ProviderName(picks[i]),
              area |-> ProviderArea(picks[i]), industry |-> ProviderIndustry(picks[i])]
        ELSE [ts_code |-> picks[i], name |-> "", area |-> "", industry |-> ""]]

\* what a selector may return: an ordered selection of the loaded codes
PickLists(keys) == {SelectSeq(CodeOrder, LAMBDA c : c \in S) : S \in SUBSET keys}

\* ---------- update_csv_files.py: the directory and the mapping ----------
\* file stems in sorted order; a file is absent or holds rows ("data"), no
\* rows or only empty cells ("empty"), or cannot be read ("unreadable");
\* origin is the name the content had when the run began
Stems == {"a", "b", "c"}
StemOrder == <<"a", "b", "c">>
FileKinds == {"absent", "data", "empty", "unreadable"}
NoStem == "-"

Absent == [kind |-> "absent", origin |-> NoStem]

FsOf(dir) ==
    [st \in Stems |-> IF dir[st] = "absent" THEN Absent ELSE [kind |-> dir[st], origin |-> st]]

\* load_code_mapping: old -> new; NoStem for a stem the table does not list
Mappings == [Stems -> Stems \cup {NoStem}]

\* list(data_dir.glob("*.csv")), then sorted() at line 130
SortedCsvFiles(fs) == SelectSeq(StemOrder, LAMBDA st : fs[st].kind # "absent")

\* check_file_has_data: rows with a non-null cell; a file that cannot be read
\* counts as having none
check_file_has_data(file) == file.kind = "data"

TargetNeverBlocked(fs, stem, new) == FALSE

\* line 150: new_file.exists() and new_file != csv_file
TargetBlocked(fs, stem, new) == fs[new].kind # "absent" /\ new # stem

\* Path.rename on a free target, Path.unlink
Renamed(fs, stem, new) ==
    IF new = stem THEN fs
    ELSE [fs EXCEPT ![new] = fs[stem], ![stem] = Absent]

Unlinked(fs, stem) == [fs EXCEPT ![stem] = Absent]

ZeroCount == [renamed |-> 0, deleted |-> 0, skipped |-> 0]
NoPreview == [done |-> FALSE, count |-> ZeroCount, decisions |-> <<>>]

\* ---------- state ----------
VARIABLES dir_exists, files, args, cfg_file,
          pc, codes, data, trade_date, selector_cfgs, idx,
          attempted, invoked, results, exports,
          stock_info_cache, fetches, now, calls,
          log, exc, exit_code,
          u_dir_exists, u_mapping, u_dir0, u_fs, u_dry, u_pc, u_files, u_k,
          u_count, u_decisions, u_preview, u_failed

env == <<dir_exists, files, args, cfg_file>>
hist == <<attempted, invoked, results, exports>>
cachev == <<stock_info_cache, fetches, now, calls>>
updv == <<u_dir_exists, u_mapping, u_dir0, u_fs, u_dry, u_pc, u_files, u_k,
          u_count, u_decisions, u_preview, u_failed>>
mainv == <<dir_exists, files, args, cfg_file, pc, codes, data, trade_date,
           selector_cfgs, idx, attempted, invoked, results, exports,
           stock_info_cache, fetches, now, calls, log, exc, exit_code>>
vars == <<dir_exists, files, args, cfg_file, pc, codes, data, trade_date,
          selector_cfgs, idx, attempted, invoked, results, exports,
          stock_info_cache, fetches, now, calls, log, exc, exit_code,
          u_dir_exists, u_mapping, u_dir0, u_fs, u_dry, u_pc, u_files, u_k,
          u_count, u_decisions, u_preview, u_failed>>

NoData == [c \in {} |-> <<>>]
CacheNone == [loaded |-> FALSE, known |-> {}]

\* --tickers and --date: "all" with or without a date, an explicit list,
\* and a list with nothing in it
CommandLines ==
    {[all |-> TRUE, toks |-> <<>>, date |-> 0, excel |-> FALSE],
     [all |-> TRUE, toks |-> <<>>, date |-> 1, excel |-> FALSE],
     [all |-> FALSE, toks |-> <<"A", "", "B", "C">>, date |-> 0, excel |-> FALSE],
     [all |-> FALSE, toks |-> <<"">>, date |-> 0, excel |-> FALSE]}

InitRun ==
    /\ pc = "start"
    /\ codes = <<>>
    /\ data = NoData
    /\ trade_date = NoDate
    /\ selector_cfgs = <<>>
    /\ idx = 0
    /\ attempted = <<>>
    /\ invoked = <<>>
    /\ results = <<>>
    /\ exports = <<>>
    /\ stock_info_cache = CacheNone
    /\ fetches = 0
    /\ calls = <<>>
    /\ now = 0
    /\ log = <<>>
    /\ exc = ""
    /\ exit_code = 0 - 1

\* every data directory (the third file with at most one row) and command
\* line, one fixed configuration
InitData ==
    /\ dir_exists \in BOOLEAN
    /\ files \in [Codes -> FileStates]
    /\ files["C"] \in ShortFileStates
    /\ (~dir_exists => \A c \in Codes : files[c] = MissingFile)
    /\ args \in CommandLines
    /\ cfg_file = CfgOk(JBare(SpecOff))

\* every configuration source, one fixed data directory
InitConfig ==
    /\ dir_exists = TRUE
    /\ files = [c \in Codes |-> IF c = "A" THEN OkFile(<<2, 1>>)
                                 ELSE IF c = "B" THEN OkFile(<<>>) ELSE MissingFile]
    /\ \E x \in BOOLEAN :
          args = [all |-> TRUE, toks |-> <<>>, date |-> 0, excel |-> x]
    /\ cfg_file \in ConfigFiles

\* update_csv_files.py is a separate program: not running
UpdateIdle ==
    /\ u_dir_exists = FALSE
    /\ u_mapping = [st \in Stems |-> NoStem]
    /\ u_dir0 = [st \in Stems |-> "absent"]
    /\ u_fs = FsOf(u_dir0)
    /\ u_dry = TRUE
    /\ u_pc = "idle"
    /\ u_files = <<>>
    /\ u_k = 0
    /\ u_count = ZeroCount
    /\ u_decisions = <<>>
    /\ u_preview = NoPreview
    /\ u_failed = 0

Init == InitRun /\ UpdateIdle /\ (InitData \/ InitConfig)

Logged(level, msg) == Append(log, [level |-> level, msg |-> msg])

\* sys.exit(1) after logger.error(msg)
Fatal(msg) ==
    /\ log' = Logged("ERROR", msg)
    /\ exit_code' = 1
    /\ pc' = "exit"
    /\ exc' = exc

\* an exception nobody catches: traceback on stderr, exit status 1
Uncaught(e) ==
    /\ exc' = e
    /\ exit_code' = 1
    /\ pc' = "exit"
    /\ log' = log

\* ---------- main(), lines 187-220 ----------
CheckDataDir ==
    /\ pc = "start"
    /\ IF ~dir_exists
       THEN Fatal("data_dir_missing")
       ELSE /\ pc' = "codes"
            /\ UNCHANGED <<log, exc, exit_code>>
    /\ UNCHANGED <<env, updv, codes, data, trade_date, selector_cfgs, idx, hist, cachev>>

ResolveCodes ==
    /\ pc = "codes"
    /\ codes' = IF args.all THEN GlobStems(files) ELSE SplitTickers(args.toks)
    /\ IF codes' = <<>>
       THEN Fatal("empty_universe")
       ELSE /\ pc' = "load"
            /\ UNCHANGED <<log, exc, exit_code>>
    /\ UNCHANGED <<env, updv, data, trade_date, selector_cfgs, idx, hist, cachev>>

\* the warnings load_data logs, one per missing file, in request order
MissingWarnings(cs) ==
    [i \in 1..Len(SelectSeq(cs, LAMBDA c : files[c].kind = "missing")) |->
        [level |-> "WARNING", msg |-> "file_missing"]]

LoadData ==
    /\ pc = "load"
    /\ IF LoadRaises(files, codes)
       THEN /\ Uncaught("ParserError")
            /\ data' = data
       ELSE /\ data' = load_data(files, codes)
            /\ IF DOMAIN data' = {}
               THEN /\ log' = Append(log \o MissingWarnings(codes),
                                     [level |-> "ERROR", msg |-> "no_data_loaded"])
                    /\ exit_code' = 1
                    /\ pc' = "exit"
                    /\ exc' = exc
               ELSE /\ log' = log \o MissingWarnings(codes)
                    /\ pc' = "date"
                    /\ UNCHANGED <<exc, exit_code>>
    /\ UNCHANGED <<env, updv, codes, trade_date, selector_cfgs, idx, hist, cachev>>

ResolveDate ==
    /\ pc = "date"
    /\ IF args.date # 0
       THEN /\ trade_date' = args.date
            /\ pc' = "config"
            /\ UNCHANGED <<log, exc, exit_code>>
       ELSE IF ResolveRaises(data)
       THEN /\ Uncaught("ValueError")
            /\ trade_date' = trade_date
       ELSE /\ trade_date' = LatestDate(data)
            /\ log' = Logged("INFO", "using_latest_date")
            /\ pc' = "config"
            /\ UNCHANGED <<exc, exit_code>>
    /\ UNCHANGED <<env, updv, codes, data, selector_cfgs, idx, hist, cachev>>

LoadConfig ==
    /\ pc = "config"
    /\ IF cfg_file.kind = "missing"
       THEN /\ Fatal("config_missing")
            /\ UNCHANGED <<selector_cfgs, idx>>
       ELSE IF cfg_file.kind = "unparsable"
       THEN /\ Uncaught("JSONDecodeError")
            /\ UNCHANGED <<selector_cfgs, idx>>
       ELSE IF Normalize(cfg_file.raw) = <<>>
       THEN /\ Fatal("no_selectors")
            /\ UNCHANGED <<selector_cfgs, idx>>
       ELSE /\ selector_cfgs' = Normalize(cfg_file.raw)
            /\ idx' = 1
            /\ pc' = "loop"
            /\ UNCHANGED <<log, exc, exit_code>>
    /\ UNCHANGED <<env, updv, codes, data, trade_date, hist, cachev>>

\* ---------- get_stock_info_cache, lines 20-25 ----------
\* the global after a call in which the provider, if asked, answered known
CacheAfterNeverStores(known) == stock_info_cache

CacheAfter(known) ==
    IF stock_info_cache.loaded THEN stock_info_cache ELSE [loaded |-> TRUE, known |-> known]

\* what the call returns: the stored table, or the one just fetched
Returned(known) == IF stock_info_cache.loaded THEN stock_info_cache.known ELSE known

\* a call that returns; calls records every call with its outcome
GetCacheReturns(known) ==
    /\ stock_info_cache.loaded => known = stock_info_cache.known
    /\ stock_info_cache' = CacheAfter(known)
    /\ fetches' = IF stock_info_cache.loaded THEN fetches ELSE fetches + 1
    /\ calls' = Append(calls, [outcome |-> IF stock_info_cache.loaded THEN "cached" ELSE "fetched",
                               ret |-> Returned(known)])

\* a call in which get_stock_basic_info raises (ts_client.py line 81): the
\* assignment of line 24 never happens
GetCacheRaises ==
    /\ ~stock_info_cache.loaded
    /\ fetches' = fetches + 1
    /\ calls' = Append(calls, [outcome |-> "raised", ret |-> {}])
    /\ stock_info_cache' = stock_info_cache

\* ---------- main(), lines 223-244: one iteration of the run loop ----------
Cfg == selector_cfgs[idx]

InLoop == pc = "loop" /\ idx \in 1..Len(selector_cfgs)

Report(picks) == [idx |-> idx, alias |-> AliasOf(Cfg), date |-> trade_date, picks |-> picks]

Export(name, rows, stage, ret) ==
    [idx |-> idx, alias |-> AliasOf(Cfg), name |-> name, rows |-> rows,
     stage |-> stage, ret |-> ret]

\* line 224-225
IterSkipInactive ==
    /\ InLoop
    /\ Inactive(Cfg)
    /\ idx' = idx + 1
    /\ UNCHANGED <<env, updv, pc, codes, data, trade_date, selector_cfgs, hist, cachev,
                   log, exc, exit_code>>

\* lines 226-230
IterConstructFails ==
    /\ InLoop
    /\ ~Inactive(Cfg)
    /\ ConstructError(Cfg) # ""
    /\ attempted' = Append(attempted, idx)
    /\ log' = Logged("ERROR", "skip_config")
    /\ idx' = idx + 1
    /\ UNCHANGED <<env, updv, pc, codes, data, trade_date, selector_cfgs, invoked, results,
                   exports, cachev, exc, exit_code>>

Constructed == InLoop /\ ~Inactive(Cfg) /\ ConstructError(Cfg) = ""

\* line 242: if picks and args.excel
ShouldExportAnyway(picks) == picks # <<>>

ShouldExport(picks) == picks # <<>> /\ args.excel

\* line 232, selector.select raising: nothing in main() catches it
IterSelectRaises ==
    /\ Constructed
    /\ attempted' = Append(attempted, idx)
    /\ invoked' = Append(invoked, idx)
    /\ exc' = "SelectorError"
    /\ exit_code' = 1
    /\ pc' = "exit"
    /\ UNCHANGED <<env, updv, codes, data, trade_date, selector_cfgs, idx, results, exports,
                   cachev, log>>

\* lines 232-242 with nothing to export
IterNoExport ==
    /\ Constructed
    /\ \E picks \in PickLists(DOMAIN data) :
          /\ ~ShouldExport(picks)
          /\ results' = Append(results, Report(picks))
    /\ attempted' = Append(attempted, idx)
    /\ invoked' = Append(invoked, idx)
    /\ log' = Logged("INFO", "result")
    /\ idx' = idx + 1
    /\ UNCHANGED <<env, updv, pc, codes, data, trade_date, selector_cfgs, exports, cachev,
                   exc, exit_code>>

\* lines 232-244, the export stopping at line 117: mkdir raises
IterExportMkdirRaises ==
    /\ Constructed
    /\ \E picks \in PickLists(DOMAIN data) :
          /\ ShouldExport(picks)
          /\ results' = Append(results, Report(picks))
          /\ exports' = Append(exports, Export(<<>>, <<>>, "mkdir", "raised"))
    /\ attempted' = Append(attempted, idx)
    /\ invoked' = Append(invoked, idx)
    /\ log' = Logged("INFO", "result")
    /\ exc' = "OSError"
    /\ exit_code' = 1
    /\ pc' = "exit"
    /\ UNCHANGED <<env, updv, codes, data, trade_date, selector_cfgs, idx, cachev>>

\* lines 232-244, the export stopping at line 132: the first use of the
\* cache fetches from the provider, and the provider raises
IterExportFetchRaises ==
    /\ Constructed
    /\ GetCacheRaises
    /\ \E picks \in PickLists(DOMAIN data), t \in {now, MinOf({now + 1, MaxClock})} :
          /\ ShouldExport(picks)
          /\ results' = Append(results, Report(picks))
          /\ now' = t
          /\ exports' = Append(exports,
                               Export(ExcelFilename(AliasOf(Cfg), t), <<>>, "metadata", "raised"))
    /\ attempted' = Append(attempted, idx)
    /\ invoked' = Append(invoked, idx)
    /\ log' = Logged("INFO", "result")
    /\ exc' = "ProviderError"
    /\ exit_code' = 1
    /\ pc' = "exit"
    /\ UNCHANGED <<env, updv, codes, data, trade_date, selector_cfgs, idx>>

\* lines 232-244, the export reaching to_excel, which writes the file or
\* raises (caught at line 171)
IterExportWrites ==
    /\ Constructed
    /\ \E picks \in PickLists(DOMAIN data),
          t \in {now, MinOf({now + 1, MaxClock})},
          known \in ProviderTables,
          written \in BOOLEAN :
          /\ ShouldExport(picks)
          /\ GetCacheReturns(known)
          /\ results' = Append(results, Report(picks))
          /\ now' = t
          /\ exports' = Append(exports,
                Export(ExcelFilename(AliasOf(Cfg), t),
                       ResultRows(picks, Returned(known)),
                       IF written THEN "ok" ELSE "write",
                       IF written THEN "path" ELSE "None"))
          /\ log' = Append(Logged("INFO", "result"),
                           IF written THEN [level |-> "INFO", msg |-> "excel_saved"]
                           ELSE [level |-> "ERROR", msg |-> "excel_failed"])
    /\ attempted' = Append(attempted, idx)
    /\ invoked' = Append(invoked, idx)
    /\ idx' = idx + 1
    /\ UNCHANGED <<env, updv, pc, codes, data, trade_date, selector_cfgs, exc, exit_code>>

\* the loop is exhausted: main() returns, exit status 0
Finish ==
    /\ pc = "loop"
    /\ idx > Len(selector_cfgs)
    /\ pc' = "done"
    /\ exit_code' = 0
    /\ UNCHANGED <<env, updv, codes, data, trade_date, selector_cfgs, idx, hist, cachev, log, exc>>

Next ==
    \/ CheckDataDir
    \/ ResolveCodes
    \/ LoadData
    \/ ResolveDate
    \/ LoadConfig
    \/ IterSkipInactive
    \/ IterConstructFails
    \/ IterSelectRaises
    \/ IterNoExport
    \/ IterExportMkdirRaises
    \/ IterExportFetchRaises
    \/ IterExportWrites
    \/ Finish

Spec == Init /\ [][Next]_vars

\* ---------- get_stock_info_cache called by any client of the module ----------
\* a process that imported the module and calls the function again and
\* again, catching what it raises; main() is not running
InitCache ==
    /\ InitRun
    /\ UpdateIdle
    /\ dir_exists = FALSE
    /\ files = [c \in Codes |-> MissingFile]
    /\ args = [all |-> TRUE, toks |-> <<>>, date |-> 0, excel |-> FALSE]
    /\ cfg_file = CfgMissing

ClientCallReturns ==
    /\ Len(calls) < MaxCalls
    /\ \E known \in ProviderTables : GetCacheReturns(known)
    /\ UNCHANGED <<env, updv, pc, codes, data, trade_date, selector_cfgs, idx, hist, now,
                   log, exc, exit_code>>

ClientCallRaises ==
    /\ Len(calls) < MaxCalls
    /\ GetCacheRaises
    /\ UNCHANGED <<env, updv, pc, codes, data, trade_date, selector_cfgs, idx, hist, now,
                   log, exc, exit_code>>

NextCache == ClientCallReturns \/ ClientCallRaises

SpecCache == InitCache /\ [][NextCache]_vars

\* ---------- update_csv_files.py ----------
\* the preview (--dry-run) of a directory and a mapping, then the same
\* command without --dry-run on the directory the preview left
MainIdle ==
    /\ InitRun
    /\ dir_exists = FALSE
    /\ files = [c \in Codes |-> MissingFile]
    /\ args = [all |-> TRUE, toks |-> <<>>, date |-> 0, excel |-> FALSE]
    /\ cfg_file = CfgMissing

InitUpdate ==
    /\ MainIdle
    /\ u_dir_exists \in BOOLEAN
    /\ u_mapping \in Mappings
    /\ u_dir0 \in [Stems -> FileKinds]
    /\ (~u_dir_exists => \A st \in Stems : u_dir0[st] = "absent")
    /\ u_fs = FsOf(u_dir0)
    /\ u_dry = TRUE
    /\ u_pc = "start"
    /\ u_files = <<>>
    /\ u_k = 0
    /\ u_count = ZeroCount
    /\ u_decisions = <<>>
    /\ u_preview = NoPreview
    /\ u_failed = 0

UStem == u_files[u_k]
UNew == u_mapping[UStem]
UInLoop == u_pc = "loop" /\ u_k \in 1..Len(u_files)

Count(field) == [u_count EXCEPT ![field] = @ + 1]
Decided(op) == Append(u_decisions, [stem |-> UStem, op |-> op])

\* lines 99-124
UpdateStart ==
    /\ u_pc = "start"
    /\ IF ~u_dir_exists
       THEN u_pc' = "exit" /\ u_files' = u_files /\ u_k' = u_k
       ELSE /\ u_files' = SortedCsvFiles(u_fs)
            /\ IF u_files' = <<>>
               THEN u_pc' = "done" /\ u_k' = u_k
               ELSE u_pc' = "loop" /\ u_k' = 1
    /\ UNCHANGED <<mainv, u_dir_exists, u_mapping, u_dir0, u_fs, u_dry, u_count,
                   u_decisions, u_preview, u_failed>>

\* lines 135-140
UpdateSkipUnmapped ==
    /\ UInLoop
    /\ UNew = NoStem
    /\ u_count' = Count("skipped")
    /\ u_decisions' = Decided("skip")
    /\ u_k' = u_k + 1
    /\ UNCHANGED <<mainv, u_dir_exists, u_mapping, u_dir0, u_fs, u_dry, u_pc, u_files,
                   u_preview, u_failed>>

\* lines 148-153
UpdateSkipTargetExists ==
    /\ UInLoop
    /\ UNew # NoStem
    /\ check_file_has_data(u_fs[UStem])
    /\ TargetBlocked(u_fs, UStem, UNew)
    /\ u_count' = Count("skipped")
    /\ u_decisions' = Decided("skip")
    /\ u_k' = u_k + 1
    /\ UNCHANGED <<mainv, u_dir_exists, u_mapping, u_dir0, u_fs, u_dry, u_pc, u_files,
                   u_preview, u_failed>>

\* lines 155-167: the preview counts the rename, the real run performs it;
\* a rename that raises is counted as skipped
UpdateRename ==
    /\ UInLoop
    /\ UNew # NoStem
    /\ check_file_has_data(u_fs[UStem])
    /\ ~TargetBlocked(u_fs, UStem, UNew)
    /\ \E ok \in BOOLEAN :
          /\ u_dry => ok
          /\ u_fs' = IF ~u_dry /\ ok THEN Renamed(u_fs, UStem, UNew) ELSE u_fs
          /\ u_count' = IF ok THEN Count("renamed") ELSE Count("skipped")
          /\ u_decisions' = Decided(IF ok THEN "rename" ELSE "skip")
          /\ u_failed' = IF ok THEN u_failed ELSE u_failed + 1
    /\ u_k' = u_k + 1
    /\ UNCHANGED <<mainv, u_dir_exists, u_mapping, u_dir0, u_dry, u_pc, u_files, u_preview>>

\* lines 169-183: likewise for a file without data
UpdateDelete ==
    /\ UInLoop
    /\ UNew # NoStem
    /\ ~check_file_has_data(u_fs[UStem])
    /\ \E ok \in BOOLEAN :
          /\ u_dry => ok
          /\ u_fs' = IF ~u_dry /\ ok THEN Unlinked(u_fs, UStem) ELSE u_fs
          /\ u_count' = IF ok THEN Count("deleted") ELSE Count("skipped")
          /\ u_decisions' = Decided(IF ok THEN "delete" ELSE "skip")
          /\ u_failed' = IF ok THEN u_failed ELSE u_failed + 1
    /\ u_k' = u_k + 1
    /\ UNCHANGED <<mainv, u_dir_exists, u_mapping, u_dir0, u_dry, u_pc, u_files, u_preview>>

\* lines 185-196: the loop is over, the summary is printed
UpdateFinish ==
    /\ u_pc = "loop"
    /\ u_k > Len(u_files)
    /\ u_pc' = "done"
    /\ UNCHANGED <<mainv, u_dir_exists, u_mapping, u_dir0, u_fs, u_dry, u_files, u_k,
                   u_count, u_decisions, u_preview, u_failed>>

\* the command is given again without --dry-run (lines 238-243, docstring
\* lines 10-13); the preview's report is kept for comparison
UpdateRunForReal ==
    /\ u_pc = "done"
    /\ u_dry
    /\ u_preview' = [done |-> TRUE, count |-> u_count, decisions |-> u_decisions]
    /\ u_dry' = FALSE
    /\ u_pc' = "start"
    /\ u_files' = <<>>
    /\ u_k' = 0
    /\ u_count' = ZeroCount
    /\ u_decisions' = <<>>
    /\ UNCHANGED <<mainv, u_dir_exists, u_mapping, u_dir0, u_fs, u_failed>>

NextUpdate ==
    \/ UpdateStart
    \/ UpdateSkipUnmapped
    \/ UpdateSkipTargetExists
    \/ UpdateRename
    \/ UpdateDelete
    \/ UpdateFinish
    \/ UpdateRunForReal

SpecUpdate == InitUpdate /\ [][NextUpdate]_vars

\* ---------- properties ----------
Ended == pc \in {"done", "exit"}

Indexes(h) == {h[i].idx : i \in DOMAIN h}

HasError == \E i \in DOMAIN log : log[i].level = "ERROR"

\* C1: a strategy whose invocation raises is recorded with an empty PickSet
\* and the run goes on: every invoked strategy has its RunResult, and no
\* exception of selector.select ends the process.
C1_InvocationFailureIsolated ==
    /\ exc # "SelectorError"
    /\ \A i \in Range(invoked) : i \in Indexes(results)

\* C2: a spec whose activate flag is explicitly false is never passed to
\* instantiate_selector, never invoked, reported or exported; a spec whose
\* flag is absent or true is passed to instantiate_selector when the loop
\* comes to it.
C2_InactiveNeverConstructed ==
    \A i \in DOMAIN selector_cfgs :
        /\ selector_cfgs[i].activate = "false" =>
              /\ i \notin Range(attempted)
              /\ i \notin Range(invoked)
              /\ i \notin Indexes(results)
              /\ i \notin Indexes(exports)
        /\ (selector_cfgs[i].activate \in {"absent", "true"} /\ i < idx) =>
              i \in Range(attempted)

C2_Witness ==
    /\ pc = "done"
    /\ \E i, j \in DOMAIN selector_cfgs :
          /\ selector_cfgs[i].activate = "false"
          /\ selector_cfgs[j].activate = "absent"
          /\ i < j
          /\ j \in Range(invoked)

\* C3: a spec that cannot be constructed is skipped without aborting the
\* run: once the process has ended after such a skip, the exit code is zero,
\* every other active spec that can be constructed was invoked, and there
\* is exactly one RunResult per constructed spec.
Buildable(cfg) == cfg.activate # "false" /\ cfg.class = ClsSel /\ cfg.params # "bad"

SkippedUnbuildable ==
    \E i \in Range(attempted) : selector_cfgs[i].activate # "false" /\ ~Buildable(selector_cfgs[i])

OneResultPerBuildable ==
    /\ \A j \in DOMAIN selector_cfgs :
          Buildable(selector_cfgs[j]) <=> j \in Indexes(results)
    /\ \A a, b \in DOMAIN results : results[a].idx = results[b].idx => a = b

C3_ConstructionFailureIsolated ==
    (Ended /\ SkippedUnbuildable) =>
        /\ exit_code = 0
        /\ \A j \in DOMAIN selector_cfgs : Buildable(selector_cfgs[j]) => j \in Range(invoked)
        /\ OneResultPerBuildable

\* the part of C3 that holds of the code: the skip itself never ends the run
\* (a run that ends badly after a skip ended on an uncaught exception of a
\* later invocation or export)
C3_SkipItselfHarmless ==
    (Ended /\ SkippedUnbuildable /\ exc = "") =>
        /\ exit_code = 0
        /\ \A j \in DOMAIN selector_cfgs : Buildable(selector_cfgs[j]) => j \in Range(invoked)
        /\ OneResultPerBuildable

\* C4: with no --date, the resolved trade date is the greatest non-null date
\* found in any loaded table; tables without a non-null date play no part.
AllDates == UNION {Range(data[c]) \ {NaT} : c \in DOMAIN data}

C4_LatestDateResolved ==
    (args.date = 0 /\ trade_date # NoDate) =>
        /\ trade_date \in AllDates
        /\ \A d \in AllDates : d <= trade_date

C4_Witness ==
    /\ args.date = 0
    /\ trade_date = 2
    /\ DOMAIN data = Codes
    /\ \E a, b, c \in Codes :
          /\ dropna(data[a]) = <<1>>
          /\ dropna(data[b]) = <<1, 2>>
          /\ dropna(data[c]) = <<>>

\* C5: with no --date and no non-null date in any loaded table, the run
\* aborts: non-zero exit with an error reported, no trade date chosen, no
\* configuration read, no strategy constructed or invoked.
Dateless == DOMAIN data # {} /\ AllDates = {}

C5_NoDateAborts ==
    (args.date = 0 /\ Dateless /\ pc # "date") =>
        /\ pc = "exit"
        /\ exit_code = 1
        /\ (exc # "" \/ HasError)
        /\ trade_date = NoDate
        /\ selector_cfgs = <<>>
        /\ attempted = <<>>
        /\ invoked = <<>>

C5_Witness ==
    /\ args.date = 0
    /\ pc = "exit"
    /\ exc = "ValueError"
    /\ \E a, b \in DOMAIN data : data[a] = <<>> /\ data[b] = <<NaT, NaT>>

\* C6: load_config returns the declared list whatever the shape: the
\* document is the array of the returned list, or the object holding it
\* under "selectors", or, for a one-element list, the bare spec itself; the
\* list is in source order and stays as returned for the whole run.
C6_ShapesNormalizeAlike ==
    selector_cfgs # <<>> =>
        \/ cfg_file.raw = JArray(selector_cfgs)
        \/ cfg_file.raw = JWrapped(selector_cfgs)
        \/ Len(selector_cfgs) = 1 /\ cfg_file.raw = JBare(selector_cfgs[1])

C6_Witness ==
    /\ pc = "done"
    /\ cfg_file.raw.has_selectors
    /\ selector_cfgs = <<SpecG2, SpecNope>>

\* C7: every fatal condition (missing data directory, empty universe, empty
\* dataset, no resolvable date, missing, empty or unparsable configuration)
\* ends the process with a non-zero exit and a logged error message, before
\* any strategy is constructed, invoked, reported or exported.
FatalAbort ==
    /\ pc = "exit"
    /\ exc \in {"", "ValueError", "JSONDecodeError"}

NothingRun == attempted = <<>> /\ invoked = <<>> /\ results = <<>> /\ exports = <<>>

C7_FatalLoggedBeforeAnyStrategy ==
    FatalAbort =>
        /\ exit_code # 0
        /\ log # <<>> /\ log[Len(log)].level = "ERROR"
        /\ NothingRun

\* the part of C7 that holds of the code: a fatal abort exits non-zero and
\* precedes every construction, invocation, report and export
C7_FatalBeforeAnyStrategy == FatalAbort => exit_code # 0 /\ NothingRun

\* C8: the DatasetView holds exactly the requested codes that have a backing
\* file, and the run fails at the load stage only if no requested symbol
\* can be loaded.
FailedAtLoad ==
    /\ pc = "exit"
    /\ \/ exc = "ParserError"
       \/ log # <<>> /\ log[Len(log)].msg = "no_data_loaded"

C8_PartialDatasetLoads ==
    /\ DOMAIN data # {} => DOMAIN data = {c \in Range(codes) : files[c].kind # "missing"}
    /\ FailedAtLoad => \A c \in Range(codes) : files[c].kind # "ok"

\* the part of C8 that holds of the code: missing files alone never fail the
\* run unless every requested file is missing
C8_MissingFilesSkipped ==
    /\ DOMAIN data # {} => DOMAIN data = {c \in Range(codes) : files[c].kind # "missing"}
    /\ (FailedAtLoad /\ exc = "") => \A c \in Range(codes) : files[c].kind = "missing"

\* C9: a failure while producing an export (creating the directory, getting
\* the metadata, writing the file) gives the caller a null result and the
\* run goes on to the next spec.
C9_ExportFailureIsolated ==
    \A i \in DOMAIN exports :
        exports[i].stage # "ok" => exports[i].ret = "None" /\ exports[i].idx < idx

\* the part of C9 that holds of the code: a failure of the write itself
C9_WriteFailureIsolated ==
    \A i \in DOMAIN exports :
        exports[i].stage = "write" => exports[i].ret = "None" /\ exports[i].idx < idx

\* C10 as stated: two exports made in one run for differing aliases never
\* get the same file name.
Made(e) == e.ret = "path"

Named(e) == e.stage # "mkdir"

Clean(alias) == Range(alias) \subseteq AlnumChars \cup {"-", "_"}

Stamp(name) == SubSeq(name, Len(name) - 14, Len(name))

C11_AtMostOneFetch == fetches <= 1

\* C11 as amended: once a call has returned (an empty table included), every
\* later call returns that same table without asking the provider; fetches
\* counts the calls that asked, and only calls that raised come before the
\* one that fetched.
C11_OneFetchOnceReturned ==
    /\ \A i, j \in DOMAIN calls :
          (i < j /\ calls[i].outcome # "raised") =>
              calls[j].outcome = "cached" /\ calls[j].ret = calls[i].ret
    /\ fetches = Cardinality({i \in DOMAIN calls : calls[i].outcome # "cached"})
    /\ stock_info_cache.loaded <=> \E i \in DOMAIN calls : calls[i].outcome = "fetched"

C11_Witness ==
    /\ Len(calls) >= 4
    /\ calls[1].outcome = "raised"
    /\ calls[2] = [outcome |-> "fetched", ret |-> {}]
    /\ calls[3].outcome = "cached"
    /\ calls[4].outcome = "cached"
    /\ fetches = 2

\* C12: a written artifact holds one record per pick, in the picks' order,
\* and each record carries the cache's name, area and industry for its code,
\* or three empty strings when the cache is empty or has no row for it; a
\* code without a cache row does not keep the file from being written.
PicksOf(e) == (CHOOSE r \in Range(results) : r.idx = e.idx).picks

Increasing(s) == \A i, j \in DOMAIN s : i < j => s[i] < s[j]

C13_RunState ==
    /\ Increasing(attempted)
    /\ Increasing(invoked)
    /\ Range(invoked) \subseteq Range(attempted)
    /\ \A i \in Range(attempted) : i <= idx /\ i \in DOMAIN selector_cfgs
    /\ \A n \in DOMAIN results : results[n].date = trade_date /\ results[n].idx \in Range(invoked)
    /\ \A n \in DOMAIN exports :
          /\ args.excel
          /\ exports[n].idx \in Indexes(results)
          /\ PicksOf(exports[n]) # <<>>
    /\ \A n, k \in DOMAIN exports : exports[n].idx = exports[k].idx => n = k

C13_OrderedRunSameInputs ==
    /\ []C13_RunState
    /\ [][pc = "loop" => (trade_date' = trade_date /\ data' = data)]_vars

C13_Witness ==
    /\ pc = "done"
    /\ args.excel
    /\ invoked = <<1, 2>>
    /\ results[1].picks = <<>>
    /\ results[2].picks = <<"B">>
    /\ results[1].date = 2 /\ results[2].date = 2
    /\ Len(exports) = 1 /\ exports[1].idx = 2

\* C14: the preview shows what the real run does: it leaves the directory
\* as it was, and a real run in which no rename or unlink fails takes, file
\* by file, the decisions the preview reported, with the same three counts.
RealRunDone == u_preview.done /\ ~u_dry /\ u_pc = "done"

C14_PreviewPredictsRealRun ==
    /\ u_dry => u_fs = FsOf(u_dir0)
    /\ (RealRunDone /\ u_failed = 0) =>
          /\ u_decisions = u_preview.decisions
          /\ u_count = u_preview.count

\* the part of C14 that holds of the code: the preview changes no file, and
\* the two runs find the same files
C14_PreviewChangesNothing ==
    /\ u_dry => u_fs = FsOf(u_dir0)
    /\ RealRunDone => Len(u_decisions) = Len(u_preview.decisions)

\* C15: in a run without --dry-run no file is overwritten: every file that
\* had data when the run began is still there, under its old name or under
\* the name the mapping gives it, and the three counts add up to the files
\* handled so far, hence to all the files found once the run is done.
Survives(st) ==
    \/ u_fs[st] = [kind |-> "data", origin |-> st]
    \/ u_mapping[st] # NoStem /\ u_fs[u_mapping[st]] = [kind |-> "data", origin |-> st]

CountSum == u_count.renamed + u_count.deleted + u_count.skipped

C15_NoDataFileLost ==
    ~u_dry =>
        /\ \A st \in Stems : u_dir0[st] = "data" => Survives(st)
        /\ u_pc = "loop" => CountSum = u_k - 1
        /\ u_pc = "done" => CountSum = Len(u_files)

\* b.csv is renamed to a.csv after the empty a.csv was deleted, c.csv is
\* kept because its target exists
C15_Witness ==
    /\ ~u_dry
    /\ u_pc = "done"
    /\ u_dir0 = [st \in Stems |-> IF st = "a" THEN "empty" ELSE "data"]
    /\ u_fs["a"] = [kind |-> "data", origin |-> "b"]
    /\ u_fs["c"] = [kind |-> "data", origin |-> "c"]
    /\ u_mapping["c"] = "a"
    /\ u_count = [renamed |-> 1, deleted |-> 1, skipped |-> 1]

====
